---- MODULE Spec2Model ----
(***************************************************************************)
(* A model of iphone-favorites-saver.py: the path normalizer, the schema   *)
(* resolver and metadata extractor, and the run of main() with the merge   *)
(* loop of run_migration.                                                  *)
(*                                                                         *)
(* Text is modelled at character level: a Python str is a sequence of      *)
(* one-character strings, so that splitting, stripping, case folding and   *)
(* parsing are computed as the code computes them.  Optional[T] is a       *)
(* sequence of length 0 (None) or 1 (a value).                             *)
(***************************************************************************)
EXTENDS Integers, Sequences, FiniteSets, TLC

VARIABLES
    \* ---- path normalizer (one logical photo seen from both sources)
    zdirectory,     \* ZASSET.ZDIRECTORY of the store row
    zfilename,      \* ZASSET.ZFILENAME of the store row
    diskRel,        \* the file's path relative to the scan root, as os.walk finds it
    truncated,      \* PhotoMeta.relative_path computed for the row (None before)
    dbKey,          \* key of the row in the metadata dict (None before)
    fsKey,          \* key of the file in the photo_files dict (None: not yielded)
    ppc             \* which of the two sides have run: subset of {"db", "fs"}

pathVars == <<zdirectory, zfilename, diskRel, truncated, dbKey, fsKey, ppc>>

VARIABLES
    \* ---- schema resolver and metadata extractor (read_database_metadata)
    tables,         \* the store's tables: table name -> None, or Some(set of columns)
    plan,           \* the query plan of build_metadata_query (None before)
    spc,            \* position in read_database_metadata
    rowsLeft,       \* rows of cursor.fetchall() the loop has not visited yet
    metadata,       \* the dict being built: a set of [key, meta] entries, keys unique
    duplicates,     \* the duplicates counter
    lastAsset,      \* the result row the loop visited last, with the columns of its
                    \* asset and the DESCRIPTION column (None before)
    lastKept        \* whether that row was entered into the dict

storeVars == <<tables, plan, spc, rowsLeft, metadata, duplicates, lastAsset, lastKept>>

VARIABLES
    \* ---- main() and run_migration
    pc,             \* position in main() / run_migration
    phases,         \* the phases of main() entered so far
    exitCode,       \* the argument of sys.exit (None while running)
    storeError,     \* read_database_metadata caught sqlite3.Error
    nMeta,          \* len(metadata)
    nFiles,         \* len(photo_files)
    dry_run,        \* args.dry_run
    n,              \* len(matched)
    idx,            \* 1-based position of the loop in matched
    meta,           \* entry.meta of the current pair: [favorite, description]
    file,           \* the tags embedded in the current pair's file on disk
    existing,       \* ExifData returned by read_exif_data (None before the read)
    needs,          \* [rating, description]: needs_rating, needs_description
    stats,          \* the counters processed / skipped / errors
    skip_all_conflicts,
    fatal,          \* the fatal condition the run has met ("none" otherwise)
    pass,           \* which invocation of the program this is
    first,          \* how the pair ended in the first invocation
    h               \* what has happened to the current pair (history, not program state)

VARIABLES
    \* ---- the two maps main() joins, and the result of match_metadata
    md_keys,        \* the keys of the metadata dict, in insertion order
    photo_files,    \* the dict of scan_photo_files: a set of [key, rel_path] records
    matched,        \* the list of match_metadata: [meta_key, record] entries
    missing_files   \* the missing_files counter of match_metadata

joinVars == <<md_keys, photo_files, matched, missing_files>>

mainVars == <<pc, phases, exitCode, storeError, nMeta, nFiles, dry_run, n, idx, meta,
              file, existing, needs, stats, skip_all_conflicts, fatal, pass, first, h>>

runVars == <<mainVars, joinVars>>

VARIABLES
    \* ---- scan_photo_files (it fills photo_files)
    scpc,           \* position in scan_photo_files
    walk_root,      \* the directory os.walk is at, relative to the scan root (None before)
    walked,         \* the directories os.walk has yielded so far
    seen_files,     \* the files of those directories looked at so far (relative paths)
    apple_dir_found,
    dup_files,      \* how many "Duplicate file" warnings were logged
    scan_log        \* what the scanner reported at its end: subset of {"error", "warning"}

scanVars == <<scpc, walk_root, walked, seen_files, apple_dir_found, dup_files, scan_log>>

----------------------------------------------------------------------------
(* Python str and Optional helpers *)

None == <<>>
Some(x) == <<x>>
IsNone(o) == Len(o) = 0
Get(o) == o[1]

UpperLetters ==
    <<"A","B","C","D","E","F","G","H","I","J","K","L","M",
      "N","O","P","Q","R","S","T","U","V","W","X","Y","Z">>
LowerLetters ==
    <<"a","b","c","d","e","f","g","h","i","j","k","l","m",
      "n","o","p","q","r","s","t","u","v","w","x","y","z">>
Digits == {"0","1","2","3","4","5","6","7","8","9"}
\* str.isspace(): the whitespace characters of the modelled alphabet
Whitespace == {" ", "\n", "\t"}

LowerChar(c) ==
    IF \E i \in 1..Len(UpperLetters) : UpperLetters[i] = c
    THEN LowerLetters[CHOOSE i \in 1..Len(UpperLetters) : UpperLetters[i] = c]
    ELSE c
UpperChar(c) ==
    IF \E i \in 1..Len(LowerLetters) : LowerLetters[i] = c
    THEN UpperLetters[CHOOSE i \in 1..Len(LowerLetters) : LowerLetters[i] = c]
    ELSE c

\* str.lower(), str.upper()
Lower(s) == [i \in 1..Len(s) |-> LowerChar(s[i])]
Upper(s) == [i \in 1..Len(s) |-> UpperChar(s[i])]

\* str.isdigit(): non-empty and every character a digit
IsDigitStr(s) == Len(s) > 0 /\ \A i \in 1..Len(s) : s[i] \in Digits

\* str.endswith(suffix)
EndsWith(s, suffix) ==
    /\ Len(s) >= Len(suffix)
    /\ SubSeq(s, Len(s) - Len(suffix) + 1, Len(s)) = suffix

\* str.startswith(prefix)
StartsWith(s, prefix) ==
    /\ Len(s) >= Len(prefix)
    /\ SubSeq(s, 1, Len(prefix)) = prefix

\* s[:-k] for k > 0
DropLast(s, k) == IF Len(s) <= k THEN <<>> ELSE SubSeq(s, 1, Len(s) - k)

\* str.replace(old, new) for single characters
ReplaceChar(s, old, new) == [i \in 1..Len(s) |-> IF s[i] = old THEN new ELSE s[i]]

\* str.split(sep) for a single-character separator: a list of (possibly empty) parts
RECURSIVE SplitOn(_, _)
SplitOn(s, sep) ==
    IF \A i \in 1..Len(s) : s[i] # sep
    THEN <<s>>
    ELSE LET k == CHOOSE i \in 1..Len(s) :
                      s[i] = sep /\ \A j \in 1..(i - 1) : s[j] # sep
         IN  <<SubSeq(s, 1, k - 1)>> \o SplitOn(SubSeq(s, k + 1, Len(s)), sep)

\* sep.join(parts)
RECURSIVE JoinWith(_, _)
JoinWith(parts, sep) ==
    IF Len(parts) = 0 THEN <<>>
    ELSE IF Len(parts) = 1 THEN parts[1]
    ELSE parts[1] \o <<sep>> \o JoinWith(Tail(parts), sep)

\* str.strip(): leading and trailing whitespace removed
RECURSIVE LStrip(_)
LStrip(s) == IF Len(s) > 0 /\ s[1] \in Whitespace THEN LStrip(Tail(s)) ELSE s
RECURSIVE RStrip(_)
RStrip(s) ==
    IF Len(s) > 0 /\ s[Len(s)] \in Whitespace THEN RStrip(SubSeq(s, 1, Len(s) - 1)) ELSE s
Strip(s) == RStrip(LStrip(s))

\* the elements of a list that satisfy a test, in order
RECURSIVE KeepParts(_)
KeepParts(parts) ==
    IF Len(parts) = 0 THEN <<>>
    ELSE IF parts[1] = <<>> \/ parts[1] = <<".">>
         THEN KeepParts(Tail(parts))
         ELSE <<parts[1]>> \o KeepParts(Tail(parts))

\* pathlib.PurePosixPath(s).parts without the root: empty and "." segments dropped
PosixParts(s) == KeepParts(SplitOn(s, "/"))

\* pathlib.PurePosixPath(s).as_posix(): separators collapsed, "." for the empty path
AsPosix(s) ==
    LET body == JoinWith(PosixParts(s), "/")
    IN  IF Len(s) > 0 /\ s[1] = "/" THEN <<"/">> \o body
        ELSE IF body = <<>> THEN <<".">>
        ELSE body

----------------------------------------------------------------------------
(* Path Normalizer *)

APPLE_SUFFIX == <<"A","P","P","L","E">>

\* part.upper().endswith(APPLE_SUFFIX) and part[:-5].isdigit()
IsAppleDir(part) ==
    /\ EndsWith(Upper(part), APPLE_SUFFIX)
    /\ IsDigitStr(DropLast(part, 5))

\* Path(directory) / filename, as_posix()
build_relative_path(directory, filename) ==
    IF directory = <<>> THEN filename
    ELSE IF Len(filename) > 0 /\ filename[1] = "/" THEN AsPosix(filename)
    ELSE AsPosix(directory \o <<"/">> \o filename)

\* the loop of truncate_to_apple_path over parts[i:], first match returns
RECURSIVE TruncateFrom(_, _)
TruncateFrom(parts, i) ==
    IF i > Len(parts) THEN None
    ELSE IF IsAppleDir(parts[i])
         THEN Some(JoinWith(SubSeq(parts, i, Len(parts)), "/"))
         ELSE TruncateFrom(parts, i + 1)

\* a variant that keeps scanning and returns the last matching segment
RECURSIVE TruncateFromLast(_, _)
TruncateFromLast(parts, i) ==
    IF i > Len(parts) THEN None
    ELSE LET later == TruncateFromLast(parts, i + 1)
         IN  IF ~IsNone(later) THEN later
             ELSE IF IsAppleDir(parts[i])
                  THEN Some(JoinWith(SubSeq(parts, i, Len(parts)), "/"))
                  ELSE None

truncate_rightmost(path_str) ==
    LET parts == SplitOn(ReplaceChar(path_str, "\\", "/"), "/")
        hit   == TruncateFromLast(parts, 1)
    IN  IF IsNone(hit) THEN ReplaceChar(path_str, "\\", "/") ELSE Get(hit)

truncate_to_apple_path(path_str) ==
    LET parts == SplitOn(ReplaceChar(path_str, "\\", "/"), "/")
        hit   == TruncateFrom(parts, 1)
    IN  IF IsNone(hit) THEN ReplaceChar(path_str, "\\", "/") ELSE Get(hit)

\* Path(rel_path).as_posix().lower()
normalize_rel_path(rel_path) == Lower(AsPosix(rel_path))

\* Path(file_name).suffix: from the last dot, unless the name starts with it
Suffix(name) ==
    IF \A i \in 2..Len(name) : name[i] # "."
    THEN <<>>
    ELSE LET k == CHOOSE i \in 2..Len(name) :
                      name[i] = "." /\ \A j \in (i + 1)..Len(name) : name[j] # "."
         IN  IF k = Len(name) THEN <<>> ELSE SubSeq(name, k, Len(name))

SUPPORTED_EXTENSIONS ==
    { <<".","j","p","g">>, <<".","j","p","e","g">>,
      <<".","h","e","i","c">>, <<".","p","n","g">> }

\* the key the store side computes for a row (read_database_metadata)
StoreKey(directory, filename) ==
    normalize_rel_path(truncate_to_apple_path(build_relative_path(directory, filename)))

\* an eligibility test that accepts a supported file in any folder
ScanEligibleAnyFolder(rel) ==
    /\ Len(PosixParts(rel)) > 0
    /\ Lower(Suffix(PosixParts(rel)[Len(PosixParts(rel))])) \in SUPPORTED_EXTENSIONS

\* whether scan_photo_files yields the file found at rel (relative to the scan root):
\* some directory part of its folder is a marker and its extension is supported
ScanEligible(rel) ==
    LET parts == PosixParts(rel)
        dirs  == SubSeq(parts, 1, Len(parts) - 1)
    IN  /\ Len(parts) > 0
        /\ \E i \in 1..Len(dirs) : IsAppleDir(dirs[i])
        /\ Lower(Suffix(parts[Len(parts)])) \in SUPPORTED_EXTENSIONS

\* the key the scanner computes for the file found at rel
ScanKey(rel) == normalize_rel_path(AsPosix(rel))

----------------------------------------------------------------------------
(* Inputs of the path normalizer: one logical photo, written as the store   *)
(* records it and as the scan finds it.                                     *)

P_DCIM   == <<"D","C","I","M">>
P_BACKUP == <<"b","a","c","k","u","p">>
P_100    == <<"1","0","0","A","P","P","L","E">>
P_101    == <<"1","0","1","A","P","P","L","E">>
P_SUB    == <<"s","u","b">>
P_PHOTOS == <<"P","h","o","t","o","s">>
N_JPG    == <<"I","M","G","_","1",".","J","P","G">>
N_HEIC   == <<"I","M","G","_","2",".","H","E","I","C">>
N_TXT    == <<"n","o","t","e",".","t","x","t">>

\* collection folders of the logical photo (the last has no marker segment)
Folders ==
    { P_100,
      P_100 \o <<"/">> \o P_SUB \o <<"/">> \o P_101,
      P_PHOTOS }
Names == { N_JPG, N_HEIC, N_TXT }
\* what precedes the folder in ZDIRECTORY (either separator convention)
StorePrefixes == { <<>>, P_DCIM \o <<"/">>, P_DCIM \o <<"\\">> }
\* what precedes the folder under the scan root
DiskPrefixes == { <<>>, P_DCIM \o <<"/">>, P_BACKUP \o <<"/">> \o P_DCIM \o <<"/">> }

Cased(s, lower) == IF lower THEN Lower(s) ELSE s

PathInit ==
    \E folder \in Folders, name \in Names,
       sp \in StorePrefixes, dp \in DiskPrefixes,
       slow \in BOOLEAN, dlow \in BOOLEAN :
        /\ zdirectory = Cased(sp \o folder, slow)
        /\ zfilename = Cased(name, slow)
        /\ diskRel = Cased(dp \o folder \o <<"/">> \o name, dlow)
        /\ truncated = None
        /\ dbKey = None
        /\ fsKey = None
        /\ ppc = {}

\* read_database_metadata, the body of the row loop
ExtractRowKey ==
    /\ UNCHANGED <<storeVars, scanVars, runVars>>
    /\ "db" \notin ppc
    /\ LET full_relative == build_relative_path(zdirectory, zfilename)
           trunc == truncate_to_apple_path(full_relative)
       IN  /\ truncated' = Some(trunc)
           /\ dbKey' = Some(normalize_rel_path(trunc))
    /\ ppc' = ppc \cup {"db"}
    /\ UNCHANGED <<zdirectory, zfilename, diskRel, fsKey>>

\* scan_photo_files, the body of the walk for the file at diskRel
ScanFileKey ==
    /\ UNCHANGED <<storeVars, scanVars, runVars>>
    /\ "fs" \notin ppc
    /\ fsKey' = IF ScanEligible(diskRel) THEN Some(ScanKey(diskRel)) ELSE None
    /\ ppc' = ppc \cup {"fs"}
    /\ UNCHANGED <<zdirectory, zfilename, diskRel, truncated, dbKey>>

PathNext == ExtractRowKey \/ ScanFileKey

PathIdle ==
    /\ zdirectory = <<>>
    /\ zfilename = <<>>
    /\ diskRel = <<>>
    /\ truncated = None
    /\ dbKey = None
    /\ fsKey = None
    /\ ppc = {}

----------------------------------------------------------------------------
(* File Scanner: scan_photo_files over a directory tree *)

MaxDirs == 2
MaxFiles == 2

\* "if key in d: .. continue" before "d[key] = value": the entry in the dict stays
Keys(dict) == {e.key : e \in dict}

\* an insertion that replaces the entry already under the key
KeepLast(dict, entry) == {e \in dict : e.key # entry.key} \cup {entry}

KeepFirst(dict, entry) == IF entry.key \in Keys(dict) THEN dict ELSE dict \cup {entry}

\* the scan root itself, as root_path.relative_to(base_path)
D_ROOT == <<".">>

\* the directories of the tree under the scan root, each with its parent
ScanDirs ==
    { [path |-> P_DCIM, parent |-> D_ROOT],
      [path |-> P_100, parent |-> D_ROOT],
      [path |-> Lower(P_100), parent |-> D_ROOT],
      [path |-> P_DCIM \o <<"/">> \o P_100, parent |-> P_DCIM],
      [path |-> P_100 \o <<"/">> \o P_SUB, parent |-> P_100] }

\* the file names a directory can hold
ScanNames == { N_JPG, Lower(N_JPG), N_HEIC, N_TXT }

\* any(part.upper().endswith(APPLE_SUFFIX) and part[:-5].isdigit() for part in path_parts)
DirHasMarker(dir) ==
    \E i \in 1..Len(PosixParts(dir)) : IsAppleDir(PosixParts(dir)[i])

\* (root_path / file_name).relative_to(base_path).as_posix()
RelPathOf(dir, name) == AsPosix(dir \o <<"/">> \o name)

ScanInit ==
    /\ scpc = "start"
    /\ walk_root = None
    /\ walked = {}
    /\ seen_files = {}
    /\ apple_dir_found = FALSE
    /\ dup_files = 0
    /\ scan_log = {}

ScanIdle ==
    /\ scpc = "idle"
    /\ walk_root = None
    /\ walked = {}
    /\ seen_files = {}
    /\ apple_dir_found = FALSE
    /\ dup_files = 0
    /\ scan_log = {}

\* base_path.exists(); os.walk yields the scan root first
StartScan ==
    /\ UNCHANGED <<pathVars, storeVars, mainVars, md_keys, matched, missing_files>>
    /\ scpc = "start"
    /\ \E exists \in BOOLEAN :
          IF exists
          THEN /\ scpc' = "walk"
               /\ walk_root' = Some(D_ROOT)
               /\ walked' = {D_ROOT}
               /\ apple_dir_found' = DirHasMarker(D_ROOT)
               /\ scan_log' = scan_log
          ELSE /\ scpc' = "returned"
               /\ scan_log' = {"error"}
               /\ UNCHANGED <<walk_root, walked, apple_dir_found>>
    /\ photo_files' = {}
    /\ UNCHANGED <<seen_files, dup_files>>

\* os.walk yields the next directory, after its parent
EnterDirectory ==
    /\ UNCHANGED <<pathVars, storeVars, mainVars, joinVars>>
    /\ scpc = "walk"
    /\ Cardinality(walked) <= MaxDirs
    /\ \E d \in ScanDirs :
          /\ d.path \notin walked
          /\ d.parent \in walked
          /\ walk_root' = Some(d.path)
          /\ walked' = walked \cup {d.path}
          /\ apple_dir_found' = (apple_dir_found \/ DirHasMarker(d.path))
    /\ UNCHANGED <<scpc, seen_files, dup_files, scan_log>>

\* one file of the directory os.walk is at: the directory is skipped unless one of
\* its parts is a marker, the file unless its extension is supported, and a file
\* whose key is already in photo_files is logged as a duplicate
VisitFile ==
    /\ UNCHANGED <<pathVars, storeVars, mainVars, md_keys, matched, missing_files>>
    /\ scpc = "walk"
    /\ Cardinality(seen_files) < MaxFiles
    /\ \E name \in ScanNames :
          LET rel_path == RelPathOf(Get(walk_root), name)
              normalized == ScanKey(rel_path)
          IN  /\ rel_path \notin seen_files
              /\ seen_files' = seen_files \cup {rel_path}
              /\ IF ScanEligible(rel_path)
                 THEN /\ photo_files' =
                            KeepFirst(photo_files, [key |-> normalized, rel_path |-> rel_path])
                      /\ dup_files' =
                            IF normalized \in Keys(photo_files) THEN dup_files + 1
                            ELSE dup_files
                 ELSE UNCHANGED <<photo_files, dup_files>>
    /\ UNCHANGED <<scpc, walk_root, walked, apple_dir_found, scan_log>>

\* the walk is over: warn when no marker folder was seen, return photo_files
FinishScan ==
    /\ UNCHANGED <<pathVars, storeVars, mainVars, joinVars>>
    /\ scpc = "walk"
    /\ scpc' = "returned"
    /\ scan_log' = IF apple_dir_found THEN scan_log ELSE scan_log \cup {"warning"}
    /\ UNCHANGED <<walk_root, walked, seen_files, apple_dir_found, dup_files>>

ScanNext == StartScan \/ EnterDirectory \/ VisitFile \/ FinishScan

----------------------------------------------------------------------------
(* Schema Resolver *)

T_ASSET == "ZASSET"
T_AAA   == "ZADDITIONALASSETATTRIBUTES"
T_DESC  == "ZASSETDESCRIPTION"
T_EXT   == "ZEXTENDEDATTRIBUTES"
TableNames == {T_ASSET, T_AAA, T_DESC, T_EXT}

\* "T" in tables, and tables.get(T, [])
HasTable(tbls, t) == ~IsNone(tbls[t])
ColsOf(tbls, t) == IF HasTable(tbls, t) THEN Get(tbls[t]) ELSE {}

Ref(t, c) == <<t, c>>
Join(t, l, r) == [table |-> t, left |-> l, right |-> r]

\* the joins list after each of the three blocks of build_metadata_query
JoinsAfterFirst(tbls) ==
    IF HasTable(tbls, T_AAA)
    THEN IF "ZADDITIONALATTRIBUTES" \in ColsOf(tbls, T_ASSET)
         THEN <<Join(T_AAA, Ref(T_ASSET, "ZADDITIONALATTRIBUTES"), Ref(T_AAA, "Z_PK"))>>
         ELSE <<Join(T_AAA, Ref(T_ASSET, "Z_PK"), Ref(T_AAA, "ZASSET"))>>
    ELSE <<>>

JoinsAfterSecond(tbls) ==
    JoinsAfterFirst(tbls) \o
    ( IF HasTable(tbls, T_DESC) /\ HasTable(tbls, T_AAA)
      THEN IF "ZASSETDESCRIPTION" \in ColsOf(tbls, T_AAA)
           THEN <<Join(T_DESC, Ref(T_AAA, "ZASSETDESCRIPTION"), Ref(T_DESC, "Z_PK"))>>
           ELSE IF "ZASSETATTRIBUTES" \in ColsOf(tbls, T_DESC)
                THEN <<Join(T_DESC, Ref(T_DESC, "ZASSETATTRIBUTES"), Ref(T_AAA, "Z_PK"))>>
                ELSE <<>>
      ELSE <<>> )

JoinsAfterThird(tbls) ==
    JoinsAfterSecond(tbls) \o
    ( IF HasTable(tbls, T_EXT) /\ "ZCAPTION" \in ColsOf(tbls, T_EXT)
      THEN <<Join(T_EXT, Ref(T_ASSET, "Z_PK"), Ref(T_EXT, "ZASSET"))>>
      ELSE <<>> )

\* the desc_clauses list after each block: the column inside each NULLIF(.., '')
DescAfterFirst(tbls) ==
    IF HasTable(tbls, T_AAA) /\ "ZTITLE" \in ColsOf(tbls, T_AAA)
    THEN <<Ref(T_AAA, "ZTITLE")>>
    ELSE <<>>

\* a variant of the second block that appends the long description after the title
DescAfterSecondAppended(tbls) ==
    IF /\ HasTable(tbls, T_DESC) /\ HasTable(tbls, T_AAA)
       /\ "ZLONGDESCRIPTION" \in ColsOf(tbls, T_DESC)
    THEN DescAfterFirst(tbls) \o <<Ref(T_DESC, "ZLONGDESCRIPTION")>>
    ELSE DescAfterFirst(tbls)

DescAfterSecond(tbls) ==
    IF /\ HasTable(tbls, T_DESC) /\ HasTable(tbls, T_AAA)
       /\ "ZLONGDESCRIPTION" \in ColsOf(tbls, T_DESC)
    THEN <<Ref(T_DESC, "ZLONGDESCRIPTION")>> \o DescAfterFirst(tbls)
    ELSE DescAfterFirst(tbls)

DescAfterThird(tbls) ==
    IF HasTable(tbls, T_EXT) /\ "ZCAPTION" \in ColsOf(tbls, T_EXT)
    THEN DescAfterSecond(tbls) \o <<Ref(T_EXT, "ZCAPTION")>>
    ELSE DescAfterSecond(tbls)

\* the query: FROM ZASSET, the LEFT JOINs, and COALESCE(desc_clauses.., '')
build_metadata_query(tbls) ==
    [joins |-> JoinsAfterThird(tbls), desc |-> DescAfterThird(tbls)]

\* the columns ZASSET is selected and filtered by
ASSET_QUERY_COLS == {"ZFILENAME", "ZDIRECTORY", "ZFAVORITE", "ZTRASHEDSTATE"}

\* the tables in scope of the query up to and including join i
InScope(q, i) == {T_ASSET} \cup {q.joins[j].table : j \in 1..i}

\* a column reference the engine can resolve: its table is in scope and has the column
Resolves(tbls, scope, ref) == ref[1] \in scope /\ ref[2] \in ColsOf(tbls, ref[1])

\* cursor.execute(query) raises sqlite3.OperationalError (no such table / column)
QueryFails(tbls, q) ==
    \/ ~HasTable(tbls, T_ASSET)
    \/ \E c \in ASSET_QUERY_COLS : c \notin ColsOf(tbls, T_ASSET)
    \/ \E i \in 1..Len(q.joins) :
          \/ ~HasTable(tbls, q.joins[i].table)
          \/ ~Resolves(tbls, InScope(q, i), q.joins[i].left)
          \/ ~Resolves(tbls, InScope(q, i), q.joins[i].right)
    \/ \E k \in 1..Len(q.desc) :
          ~Resolves(tbls, InScope(q, Len(q.joins)), q.desc[k])

----------------------------------------------------------------------------
(* Metadata Extractor *)

\* COALESCE(NULLIF(c1, ''), .., NULLIF(cn, ''), ''): vals are the clauses' values
\* in the joined row, None for NULL
RECURSIVE Coalesce(_)
Coalesce(vals) ==
    IF Len(vals) = 0 THEN <<>>
    ELSE IF ~IsNone(vals[1]) /\ Get(vals[1]) # <<>> THEN Get(vals[1])
    ELSE Coalesce(Tail(vals))

\* the value of a description column in the row joined to the asset
ColumnValue(asset, ref) ==
    IF ref = Ref(T_AAA, "ZTITLE") THEN asset.title
    ELSE IF ref = Ref(T_DESC, "ZLONGDESCRIPTION") THEN asset.long
    ELSE asset.caption

\* the DESCRIPTION column of the result row
DescriptionOf(q, asset) ==
    Coalesce([k \in 1..Len(q.desc) |-> ColumnValue(asset, q.desc[k])])

\* WHERE ZASSET.ZTRASHEDSTATE = 0 AND (ZASSET.ZFAVORITE = 1 OR desc_expr != '')
\* (a comparison with NULL is not true)
Selected(q, asset) ==
    /\ asset.trashed = Some(0)
    /\ \/ asset.favorite = Some(1)
       \/ DescriptionOf(q, asset) # <<>>

\* bool(row["ZFAVORITE"])
Truthy(v) == ~IsNone(v) /\ Get(v) # 0

\* PhotoMeta(truncated, favorite, description) of a result row
RowMeta(q, asset, truncated_path) ==
    [ relative_path |-> truncated_path,
      favorite |-> Truthy(asset.favorite),
      description |-> Strip(DescriptionOf(q, asset)) ]

----------------------------------------------------------------------------
(* Inputs of the extractor: schemas and store rows *)

MaxRows == 2

OptionalCols(always, optional) ==
    {None} \cup { Some(always \cup s) : s \in SUBSET optional }

Schemas ==
    { [t \in TableNames |->
          CASE t = T_ASSET -> Some({"Z_PK"} \cup ASSET_QUERY_COLS \cup fwd)
            [] t = T_AAA   -> aaa
            [] t = T_DESC  -> dsc
            [] t = T_EXT   -> ext ] :
      fwd \in {{}, {"ZADDITIONALATTRIBUTES"}},
      aaa \in OptionalCols({"Z_PK"}, {"ZASSET", "ZTITLE", "ZASSETDESCRIPTION"}),
      dsc \in OptionalCols({"Z_PK"}, {"ZASSETATTRIBUTES", "ZLONGDESCRIPTION"}),
      ext \in OptionalCols({"Z_PK"}, {"ZASSET", "ZCAPTION"}) }

\* the schemas the row loop is explored under: every subset of the three
\* description sources with its join columns, and a caption table without its
\* back-reference column
RowSchemas ==
    { [t \in TableNames |->
          CASE t = T_ASSET -> Some({"Z_PK"} \cup ASSET_QUERY_COLS)
            [] t = T_AAA   -> aaa
            [] t = T_DESC  -> dsc
            [] t = T_EXT   -> ext ] :
      aaa \in { None, Some({"Z_PK", "ZASSET"}), Some({"Z_PK", "ZASSET", "ZTITLE"}) },
      dsc \in { None, Some({"Z_PK", "ZASSETATTRIBUTES", "ZLONGDESCRIPTION"}) },
      ext \in { None, Some({"Z_PK", "ZASSET", "ZCAPTION"}), Some({"Z_PK", "ZCAPTION"}) } }

StoreFiles ==
    { [directory |-> P_DCIM \o <<"/">> \o P_100, filename |-> N_JPG],
      [directory |-> Lower(P_100), filename |-> Lower(N_JPG)],
      [directory |-> P_101, filename |-> N_HEIC] }

Favorites == { Some(0), Some(1) }
Trashed   == { Some(0), Some(1) }
Titles    == { None, Some(<<"t">>) }
Longs     == { None, Some(<<>>), Some(<<" ">>), Some(<<"l", " ">>) }
Captions  == { None, Some(<<"c">>) }

\* the values a description column can hold in a joined row; a column the query
\* does not name is not read
ValuesFor(q, ref, values) ==
    IF \E k \in 1..Len(q.desc) : q.desc[k] = ref THEN values ELSE {None}

SchemaInit ==
    /\ tables \in Schemas
    /\ plan = None
    /\ spc = "connect"
    /\ rowsLeft = 0
    /\ metadata = {}
    /\ duplicates = 0
    /\ lastAsset = None
    /\ lastKept = FALSE

StoreInit ==
    /\ tables \in RowSchemas
    /\ plan = None
    /\ spc = "connect"
    /\ rowsLeft = 0
    /\ metadata = {}
    /\ duplicates = 0
    /\ lastAsset = None
    /\ lastKept = FALSE

\* fetch_table_names and build_metadata_query
BuildQuery ==
    /\ UNCHANGED <<pathVars, scanVars, runVars>>
    /\ spc = "connect"
    /\ plan' = Some(build_metadata_query(tables))
    /\ spc' = "execute"
    /\ UNCHANGED <<tables, rowsLeft, metadata, duplicates, lastAsset, lastKept>>

\* cursor.execute(query) raises: except sqlite3.Error -> return {}
ExecuteFails ==
    /\ UNCHANGED <<pathVars, scanVars, runVars>>
    /\ spc = "execute"
    /\ QueryFails(tables, Get(plan))
    /\ spc' = "store_error"
    /\ UNCHANGED <<tables, plan, rowsLeft, metadata, duplicates, lastAsset, lastKept>>

\* cursor.execute(query); rows = cursor.fetchall()
ExecuteQuery ==
    /\ UNCHANGED <<pathVars, scanVars, runVars>>
    /\ spc = "execute"
    /\ ~QueryFails(tables, Get(plan))
    /\ \E fetched \in 0..MaxRows : rowsLeft' = fetched
    /\ spc' = "rows"
    /\ UNCHANGED <<tables, plan, metadata, duplicates, lastAsset, lastKept>>

\* one iteration of "for row in rows": the row is an asset the WHERE clause selects
EmitRow ==
    /\ UNCHANGED <<pathVars, scanVars, runVars>>
    /\ spc = "rows"
    /\ rowsLeft > 0
    /\ \E f \in StoreFiles :
        \E full_relative \in {build_relative_path(f.directory, f.filename)} :
        \E truncated_path \in {truncate_to_apple_path(full_relative)} :
        \E normalized \in {normalize_rel_path(truncated_path)} :
            \E fav \in Favorites, tr \in Trashed,
               ti \in ValuesFor(Get(plan), Ref(T_AAA, "ZTITLE"), Titles),
               lo \in ValuesFor(Get(plan), Ref(T_DESC, "ZLONGDESCRIPTION"), Longs),
               ca \in ValuesFor(Get(plan), Ref(T_EXT, "ZCAPTION"), Captions) :
            LET asset == [ directory |-> f.directory, filename |-> f.filename,
                           favorite |-> fav, trashed |-> tr,
                           title |-> ti, long |-> lo, caption |-> ca ]
                row_meta == RowMeta(Get(plan), asset, truncated_path)
            IN  /\ Selected(Get(plan), asset)
                /\ metadata' = KeepFirst(metadata, [key |-> normalized, meta |-> row_meta])
                /\ duplicates' =
                      IF normalized \in Keys(metadata) THEN duplicates + 1 ELSE duplicates
                /\ lastKept' = (normalized \notin Keys(metadata))
                /\ lastAsset' = Some([ directory |-> asset.directory,
                                       filename |-> asset.filename,
                                       favorite |-> asset.favorite,
                                       trashed |-> asset.trashed,
                                       title |-> asset.title,
                                       long |-> asset.long,
                                       caption |-> asset.caption,
                                       description |-> DescriptionOf(Get(plan), asset) ])
    /\ rowsLeft' = rowsLeft - 1
    /\ UNCHANGED <<tables, plan, spc>>

\* the loop ends: return metadata
ReturnMetadata ==
    /\ UNCHANGED <<pathVars, scanVars, runVars>>
    /\ spc = "rows"
    /\ rowsLeft = 0
    /\ spc' = "returned"
    /\ UNCHANGED <<tables, plan, rowsLeft, metadata, duplicates, lastAsset, lastKept>>

SchemaNext == BuildQuery \/ ExecuteFails \/ ExecuteQuery

StoreNext ==
    BuildQuery \/ ExecuteFails \/ ExecuteQuery \/ EmitRow \/ ReturnMetadata

StoreIdle ==
    /\ tables = [t \in TableNames |-> None]
    /\ plan = None
    /\ spc = "idle"
    /\ rowsLeft = 0
    /\ metadata = {}
    /\ duplicates = 0
    /\ lastAsset = None
    /\ lastKept = FALSE

----------------------------------------------------------------------------
(* The embedded-metadata tool and its two wrappers *)

L_RATING == <<"R","a","t","i","n","g">>
L_IMAGEDESCRIPTION ==
    <<"I","m","a","g","e","D","e","s","c","r","i","p","t","i","o","n">>
L_DESCRIPTION == <<"D","e","s","c","r","i","p","t","i","o","n">>

DigitChars == <<"0","1","2","3","4","5","6","7","8","9">>

\* the decimal text of a rating (-9..9)
IntText(i) == IF i < 0 THEN <<"-", DigitChars[1 - i]>> ELSE <<DigitChars[i + 1]>>

\* int(value): Some(i), or None where int() raises ValueError
ParseInt(value) ==
    IF Len(value) = 1 /\ value[1] \in Digits
    THEN Some((CHOOSE k \in 1..10 : DigitChars[k] = value[1]) - 1)
    ELSE IF Len(value) = 2 /\ value[1] = "-" /\ value[2] \in Digits
    THEN Some(1 - (CHOOSE k \in 1..10 : DigitChars[k] = value[2]))
    ELSE None

\* one line of the tool's report of a tag: "Label : value"; the tool reports a
\* value on one line, a line break in it shown as "." (escaped) or left as it is
TagLine(label, value, escaped) ==
    label \o <<" ", ":", " ">> \o
    (IF escaped THEN ReplaceChar(value, "\n", ".") ELSE value) \o <<"\n">>

\* stdout of "exiftool -Rating -ImageDescription -Description file"
ToolOutput(f, escaped) ==
    (IF IsNone(f.rating) THEN <<>>
     ELSE TagLine(L_RATING, IntText(Get(f.rating)), escaped)) \o
    (IF IsNone(f.imageDescription) THEN <<>>
     ELSE TagLine(L_IMAGEDESCRIPTION, Get(f.imageDescription), escaped)) \o
    (IF IsNone(f.description) THEN <<>>
     ELSE TagLine(L_DESCRIPTION, Get(f.description), escaped))

\* str.splitlines()
SplitLines(text) ==
    LET parts == SplitOn(text, "\n")
    IN  IF Len(parts) > 0 /\ parts[Len(parts)] = <<>>
        THEN SubSeq(parts, 1, Len(parts) - 1)
        ELSE parts

\* key, _, value = line.partition(":")
PartitionKey(line) ==
    IF \A i \in 1..Len(line) : line[i] # ":" THEN line
    ELSE SubSeq(line, 1, (CHOOSE i \in 1..Len(line) :
                             line[i] = ":" /\ \A j \in 1..(i - 1) : line[j] # ":") - 1)
PartitionValue(line) ==
    IF \A i \in 1..Len(line) : line[i] # ":" THEN <<>>
    ELSE SubSeq(line, (CHOOSE i \in 1..Len(line) :
                          line[i] = ":" /\ \A j \in 1..(i - 1) : line[j] # ":") + 1,
                Len(line))

\* the loop of read_exif_data over stdout.splitlines(), from line i with acc so far
RECURSIVE ParseLines(_, _, _)
ParseLines(lines, i, acc) ==
    IF i > Len(lines) THEN acc
    ELSE LET line  == Strip(lines[i])
             key   == Lower(Strip(PartitionKey(line)))
             value == Strip(PartitionValue(line))
         IN  IF line = <<>> THEN ParseLines(lines, i + 1, acc)
             ELSE IF key = Lower(L_RATING)
             THEN ParseLines(lines, i + 1,
                     IF IsNone(ParseInt(value)) THEN acc
                     ELSE [acc EXCEPT !.rating = ParseInt(value)])
             ELSE IF key \in {Lower(L_IMAGEDESCRIPTION), Lower(L_DESCRIPTION)}
             THEN ParseLines(lines, i + 1,
                     IF value = <<>> THEN acc
                     ELSE [acc EXCEPT !.description = Some(value)])
             ELSE ParseLines(lines, i + 1, acc)

\* read_exif_data on a successful tool run: ExifData(rating, description)
read_exif_data(stdout) ==
    ParseLines(SplitLines(stdout), 1, [rating |-> None, description |-> None])

\* a command builder that sets the rating in every command
build_write_cmd_args_with_rating(rating, description) ==
    Some([rating |-> Some(4), description |-> description])

\* build_write_cmd_args: the tag assignments of the command, None when there are none
\* (-overwrite_original and the file path do not change which tags are set)
build_write_cmd_args(rating, description) ==
    IF IsNone(rating) /\ IsNone(description) THEN None
    ELSE Some([rating |-> rating, description |-> description])

\* the file after a successful "exiftool -Rating=.. -ImageDescription=.. -Description=.."
ApplyWrite(f, cmd) ==
    [ rating |-> IF IsNone(cmd.rating) THEN f.rating ELSE cmd.rating,
      imageDescription |->
          IF IsNone(cmd.description) THEN f.imageDescription ELSE cmd.description,
      description |->
          IF IsNone(cmd.description) THEN f.description ELSE cmd.description ]

----------------------------------------------------------------------------
(* Conflict-Resolving Merger: the decisions of run_migration *)

FAVORITE_RATING == 4

\* existing.description or ""
DescOrEmpty(ex) == IF IsNone(ex.description) THEN <<>> ELSE Get(ex.description)

\* needs_rating with the comparison weakened to "differs from 4"
needs_rating_ne(m, ex) ==
    m.favorite /\ (IsNone(ex.rating) \/ Get(ex.rating) # FAVORITE_RATING)

\* needs_rating = meta.favorite and (existing.rating is None or existing.rating < 4)
needs_rating(m, ex) ==
    m.favorite /\ (IsNone(ex.rating) \/ Get(ex.rating) < FAVORITE_RATING)

\* needs_description = bool(meta.description) and meta.description != (existing.description or "")
needs_description(m, ex) ==
    m.description # <<>> /\ m.description # DescOrEmpty(ex)

\* evaluate_conflict without the rating part
evaluate_conflict_description_only(ex, nr, nd) ==
    nd /\ ~IsNone(ex.description) /\ Get(ex.description) # <<>>

\* evaluate_conflict taking every needed change for a conflict
evaluate_conflict_any(ex, nr, nd) == nr \/ nd

\* evaluate_conflict without the description part
evaluate_conflict_rating_only(ex, nr, nd) ==
    nr /\ ~IsNone(ex.rating) /\ Get(ex.rating) # FAVORITE_RATING

evaluate_conflict(ex, nr, nd) ==
    LET rating_conflict == nr /\ ~IsNone(ex.rating) /\ Get(ex.rating) # FAVORITE_RATING
        description_conflict == nd /\ ~IsNone(ex.description) /\ Get(ex.description) # <<>>
    IN  rating_conflict \/ description_conflict

\* a conflicting pair is prompted for even when skip-all was chosen
PromptsAlways(has_conflict, skip_all) == has_conflict

\* whether prompt_conflict is called: "if has_conflict: if skip_all_conflicts: .. continue"
Prompts(has_conflict, skip_all) == has_conflict /\ ~skip_all

\* the skip-all selection skips every pair that needs a change
SkippedByFlagAnyChange(has_conflict, skip_all) == skip_all

\* whether the pair is skipped "due to 'skip all' selection":
\* "if has_conflict: if skip_all_conflicts: stats["skipped"] += 1 .. continue"
SkippedByFlag(has_conflict, skip_all) == has_conflict /\ skip_all

\* the write step never runs the tool
InvokesWriteNever(dry, cmd) == FALSE

\* the write step issues the command also in a dry run
InvokesWriteAlways(dry, cmd) == ~IsNone(cmd)

\* whether the write step runs the tool: not under args.dry_run, and write_exif_data
\* returns True without running it when there is nothing to set
InvokesWrite(dry, cmd) == ~dry /\ ~IsNone(cmd)

EXIT_SUCCESS == 0
EXIT_GENERAL_ERROR == 1
EXIT_EXIFTOOL_MISSING == 2
EXIT_INVALID_DB == 3
EXIT_NO_PHOTOS == 4

\* the exit code is success as soon as something was processed
FinalExitCodeByProgress(st) ==
    IF st.errors = 0 \/ st.processed > 0 THEN EXIT_SUCCESS ELSE EXIT_GENERAL_ERROR

\* exit_code = EXIT_SUCCESS if stats["errors"] == 0 else EXIT_GENERAL_ERROR
FinalExitCode(st) == IF st.errors = 0 THEN EXIT_SUCCESS ELSE EXIT_GENERAL_ERROR

----------------------------------------------------------------------------

(* Inputs of the run: matched pairs and the tags their files hold *)

MaxPairs == 2
MaxPasses == 2

\* descriptions as the extractor emits them (stripped; a line break may remain inside)
MetaDescs == { <<>>, <<"a">>, <<"a", "\n", "b">> }
Metas == [favorite : BOOLEAN, description : MetaDescs]

FileTags ==
    [ rating : {None, Some(3), Some(4), Some(5)},
      imageDescription : {None, Some(<<"b">>)},
      description : {None, Some(<<"a">>), Some(<<"b">>)} ]

NoMeta == [favorite |-> FALSE, description |-> <<>>]
NoFile == [rating |-> None, imageDescription |-> None, description |-> None]
NoNeeds == [rating |-> FALSE, description |-> FALSE]
ZeroStats == [processed |-> 0, skipped |-> 0, errors |-> 0]

\* the keys under which the two maps can hold an entry, in the order the store
\* returns their rows
KeyList == << <<"a">>, <<"b">>, <<"c">> >>
JoinKeys == {KeyList[i] : i \in 1..Len(KeyList)}

\* the elements of a list that belong to a set, in the order of the list
RECURSIVE Pick(_, _)
Pick(list, S) ==
    IF Len(list) = 0 THEN <<>>
    ELSE (IF list[1] \in S THEN <<list[1]>> ELSE <<>>) \o Pick(Tail(list), S)

\* the metadata dicts and photo_files dicts of a run: at most MaxPairs entries each;
\* a file's path on disk is its key in upper case
MetadataKeyLists ==
    { Pick(KeyList, S) : S \in {T \in SUBSET JoinKeys : Cardinality(T) <= MaxPairs} }
FileRecordOf(key) == [key |-> key, rel_path |-> Upper(key)]
PhotoFileDicts ==
    { {FileRecordOf(k) : k \in S} :
        S \in {T \in SUBSET JoinKeys : Cardinality(T) <= MaxPairs} }

\* a join that makes a pair of every scanned file, with or without a record
RECURSIVE match_every_file(_, _)
match_every_file(keys, files) ==
    IF files = {} THEN [matched |-> <<>>, missing_files |-> 0]
    ELSE LET r == CHOOSE x \in files : TRUE
             rest == match_every_file(keys, files \ {r})
         IN  [ matched |-> <<[meta_key |-> r.key, record |-> r]>> \o rest.matched,
               missing_files |-> rest.missing_files ]

\* match_metadata: for key, meta in metadata.items(): photo_files.get(key) ..
RECURSIVE match_metadata(_, _)
match_metadata(keys, files) ==
    IF Len(keys) = 0 THEN [matched |-> <<>>, missing_files |-> 0]
    ELSE LET key  == keys[1]
             rest == match_metadata(Tail(keys), files)
         IN  IF \E r \in files : r.key = key
             THEN [ matched |->
                        <<[meta_key |-> key,
                           record |-> CHOOSE r \in files : r.key = key]>> \o rest.matched,
                    missing_files |-> rest.missing_files ]
             ELSE [ matched |-> rest.matched,
                    missing_files |-> rest.missing_files + 1 ]

\* the history of a pair at the moment the loop reaches it
NewPair(skip, st, f) ==
    [ reads |-> 0, writes |-> 0, asks |-> 0,
      cls |-> "none",           \* nometa / readfail / noop / conflict / safe
      decision |-> None,        \* the oracle's answer
      outcome |-> "none",       \* the counter the pair incremented
      reachedWrite |-> FALSE,   \* the pair got to the write step
      cmd |-> None,             \* the tag assignments of the write issued
      writeOk |-> None,         \* whether the write issued succeeded
      path |-> None,            \* entry.record.rel_path, the file handed to the tool
      skipAtStart |-> skip, statsBefore |-> st, fileBefore |-> f ]

\* the iteration stops one entry before the end of the list
ExhaustedEarly(i, len) == i >= len

\* "for entry in matched": the iteration is over once every entry has been taken
Exhausted(i, len) == i > len

\* every outcome is counted twice
BumpTwice(st, counter) == [st EXCEPT ![counter] = @ + 2]

\* every outcome is counted as processed
BumpProcessed(st, counter) == [st EXCEPT !.processed = @ + 1]

Bump(st, counter) == [st EXCEPT ![counter] = @ + 1]

RunIdle ==
    /\ pc = "idle"
    /\ phases = {}
    /\ exitCode = None
    /\ storeError = FALSE
    /\ nMeta = 0
    /\ nFiles = 0
    /\ dry_run = FALSE
    /\ n = 0
    /\ idx = 0
    /\ meta = NoMeta
    /\ file = NoFile
    /\ existing = None
    /\ needs = NoNeeds
    /\ stats = ZeroStats
    /\ skip_all_conflicts = FALSE
    /\ fatal = "none"
    /\ pass = 1
    /\ first = "none"
    /\ h = NewPair(FALSE, ZeroStats, NoFile)
    /\ md_keys = <<>>
    /\ photo_files = {}
    /\ matched = <<>>
    /\ missing_files = 0

Init ==
    /\ pc = "deps"
    /\ phases = {}
    /\ exitCode = None
    /\ storeError = FALSE
    /\ nMeta = 0
    /\ nFiles = 0
    /\ dry_run \in BOOLEAN
    /\ n = 0
    /\ idx = 0
    /\ meta = NoMeta
    /\ file = NoFile
    /\ existing = None
    /\ needs = NoNeeds
    /\ stats = ZeroStats
    /\ skip_all_conflicts = FALSE
    /\ fatal = "none"
    /\ pass = 1
    /\ first = "none"
    /\ h = NewPair(FALSE, ZeroStats, NoFile)
    /\ md_keys = <<>>
    /\ photo_files = {}
    /\ matched = <<>>
    /\ missing_files = 0
    /\ PathIdle
    /\ StoreIdle
    /\ ScanIdle

\* sys.exit(code)
Exit(code, why) ==
    /\ pc' = "exit"
    /\ exitCode' = Some(code)
    /\ fatal' = why

\* main: check_dependencies
CheckDependencies ==
    /\ UNCHANGED <<pathVars, storeVars, scanVars, joinVars>>
    /\ pc = "deps"
    /\ phases' = phases \cup {"deps"}
    /\ \E found \in BOOLEAN :
          IF found THEN pc' = "validate" /\ UNCHANGED <<exitCode, fatal>>
          ELSE Exit(EXIT_EXIFTOOL_MISSING, "exiftool_missing")
    /\ UNCHANGED <<storeError, nMeta, nFiles, dry_run, n, idx, meta, file, existing,
                   needs, stats, skip_all_conflicts, pass, first, h>>

\* what is wrong with the database file, if anything
DbCondition(exists, opens, has_zasset) ==
    IF ~exists THEN "db_missing"
    ELSE IF ~opens THEN "open_error"
    ELSE IF ~has_zasset THEN "no_zasset"
    ELSE "none"

\* a validation that does not look for the ZASSET table
validate_database_lenient(exists, opens, has_zasset) == exists /\ opens

\* validate_database: False when the file is missing, when sqlite3 raises on opening
\* or listing the tables, and when ZASSET is not among the tables
validate_database(exists, opens, has_zasset) == exists /\ opens /\ has_zasset

\* main: if not validate_database(..): sys.exit(EXIT_INVALID_DB)
ValidateDatabase ==
    /\ UNCHANGED <<pathVars, storeVars, scanVars, joinVars>>
    /\ pc = "validate"
    /\ phases' = phases \cup {"validate"}
    /\ \E exists \in BOOLEAN, opens \in BOOLEAN, has_zasset \in BOOLEAN :
          IF validate_database(exists, opens, has_zasset)
          THEN /\ pc' = "read_db"
               /\ fatal' = DbCondition(exists, opens, has_zasset)
               /\ UNCHANGED exitCode
          ELSE Exit(EXIT_INVALID_DB, DbCondition(exists, opens, has_zasset))
    /\ UNCHANGED <<storeError, nMeta, nFiles, dry_run, n, idx, meta, file, existing,
                   needs, stats, skip_all_conflicts, pass, first, h>>

\* main: metadata = read_database_metadata(..); an empty result only warns
ReadDatabase ==
    /\ UNCHANGED <<pathVars, storeVars, scanVars>>
    /\ pc = "read_db"
    /\ phases' = phases \cup {"read_db"}
    /\ \E raised \in BOOLEAN, keys \in MetadataKeyLists :
          /\ storeError' = raised
          /\ md_keys' = IF raised THEN <<>> ELSE keys
    /\ nMeta' = Len(md_keys')
    /\ pc' = "scan"
    /\ UNCHANGED <<photo_files, matched, missing_files>>
    /\ UNCHANGED <<exitCode, fatal, nFiles, dry_run, n, idx, meta, file, existing,
                   needs, stats, skip_all_conflicts, pass, first, h>>

\* what is wrong with the scan, if anything
ScanCondition(root_exists, found) ==
    IF ~root_exists THEN "root_missing"
    ELSE IF found = 0 THEN "no_files"
    ELSE "none"

\* main: photo_files = scan_photo_files(..); if not photo_files: sys.exit(EXIT_NO_PHOTOS)
ScanPhotoFiles ==
    /\ UNCHANGED <<pathVars, storeVars, scanVars>>
    /\ pc = "scan"
    /\ phases' = phases \cup {"scan"}
    /\ \E root_exists \in BOOLEAN, found \in PhotoFileDicts :
          /\ photo_files' = IF root_exists THEN found ELSE {}
          /\ nFiles' = Cardinality(photo_files')
          /\ IF nFiles' = 0
             THEN Exit(EXIT_NO_PHOTOS, ScanCondition(root_exists, Cardinality(found)))
             ELSE /\ pc' = "match"
                  /\ fatal' = ScanCondition(root_exists, Cardinality(found))
                  /\ UNCHANGED exitCode
    /\ UNCHANGED <<md_keys, matched, missing_files>>
    /\ UNCHANGED <<storeError, nMeta, dry_run, n, idx, meta, file, existing,
                   needs, stats, skip_all_conflicts, pass, first, h>>

\* main: matched = match_metadata(..); if not matched: sys.exit(EXIT_SUCCESS);
\* otherwise run_migration starts with zero counters and the flag cleared
MatchMetadata ==
    /\ UNCHANGED <<pathVars, storeVars, scanVars>>
    /\ pc = "match"
    /\ phases' = phases \cup {"match"}
    /\ LET result == match_metadata(md_keys, photo_files)
       IN  /\ matched' = result.matched
           /\ missing_files' = result.missing_files
    /\ n' = Len(matched')
    /\ IF n' = 0
       THEN Exit(EXIT_SUCCESS, fatal) /\ UNCHANGED idx
       ELSE pc' = "loop" /\ idx' = 1 /\ UNCHANGED <<exitCode, fatal>>
    /\ UNCHANGED <<md_keys, photo_files>>
    /\ stats' = ZeroStats
    /\ skip_all_conflicts' = FALSE
    /\ UNCHANGED <<storeError, nMeta, nFiles, dry_run, meta, file, existing,
                   needs, pass, first, h>>

\* run_migration: "for entry in matched" up to the read; a record with neither
\* favorite nor description is skipped.  The pair's record and its file's tags
\* are inputs, drawn when the loop reaches the pair.
LoopHead ==
    /\ UNCHANGED <<pathVars, storeVars, scanVars, joinVars>>
    /\ pc = "loop"
    /\ ~Exhausted(idx, n)
    /\ phases' = phases \cup {"migrate"}
    /\ \E m \in Metas, f \in FileTags :
          /\ meta' = IF pass = 1 THEN m ELSE meta
          /\ file' = IF pass = 1 THEN f ELSE file
    /\ existing' = None
    /\ needs' = NoNeeds
    /\ IF ~meta'.favorite /\ meta'.description = <<>>
       THEN /\ stats' = Bump(stats, "skipped")
            /\ idx' = idx + 1
            /\ pc' = "loop"
            /\ h' = [NewPair(skip_all_conflicts, stats, file')
                        EXCEPT !.cls = "nometa", !.outcome = "skipped"]
       ELSE /\ pc' = "read"
            /\ h' = [NewPair(skip_all_conflicts, stats, file')
                        EXCEPT !.path = Some(matched[idx].record.rel_path)]
            /\ UNCHANGED <<stats, idx>>
    /\ UNCHANGED <<exitCode, fatal, storeError, nMeta, nFiles, dry_run, n,
                   skip_all_conflicts, pass, first>>

\* run_migration: existing = read_exif_data(..); except ExifToolError: errors += 1
ReadExif ==
    /\ UNCHANGED <<pathVars, storeVars, scanVars, joinVars>>
    /\ pc = "read"
    /\ \E ok \in BOOLEAN, escaped \in BOOLEAN :
          IF ok
          THEN /\ existing' = Some(read_exif_data(ToolOutput(file, escaped)))
               /\ pc' = "classify"
               /\ h' = [h EXCEPT !.reads = @ + 1]
               /\ UNCHANGED <<stats, idx>>
          ELSE /\ existing' = None
               /\ stats' = Bump(stats, "errors")
               /\ idx' = idx + 1
               /\ pc' = "loop"
               /\ h' = [h EXCEPT !.reads = @ + 1, !.cls = "readfail", !.outcome = "errors"]
    /\ UNCHANGED <<phases, exitCode, fatal, storeError, nMeta, nFiles, dry_run, n, meta,
                   file, needs, skip_all_conflicts, pass, first>>

\* run_migration: needs_rating, needs_description, the no-op test, evaluate_conflict
\* and the skip-all test
Classify ==
    /\ UNCHANGED <<pathVars, storeVars, scanVars, joinVars>>
    /\ pc = "classify"
    /\ LET ex == Get(existing)
           nr == needs_rating(meta, ex)
           nd == needs_description(meta, ex)
           has_conflict == evaluate_conflict(ex, nr, nd)
       IN  /\ needs' = [rating |-> nr, description |-> nd]
           /\ IF ~nr /\ ~nd
              THEN /\ stats' = Bump(stats, "skipped")
                   /\ idx' = idx + 1
                   /\ pc' = "loop"
                   /\ h' = [h EXCEPT !.cls = "noop", !.outcome = "skipped"]
              ELSE IF Prompts(has_conflict, skip_all_conflicts)
              THEN /\ pc' = "prompt"
                   /\ h' = [h EXCEPT !.cls = "conflict"]
                   /\ UNCHANGED <<stats, idx>>
              ELSE IF SkippedByFlag(has_conflict, skip_all_conflicts)
              THEN /\ stats' = Bump(stats, "skipped")
                   /\ idx' = idx + 1
                   /\ pc' = "loop"
                   /\ h' = [h EXCEPT !.cls = "conflict", !.outcome = "skipped"]
              ELSE /\ pc' = "write"
                   /\ h' = [h EXCEPT !.cls = "safe"]
                   /\ UNCHANGED <<stats, idx>>
    /\ UNCHANGED <<phases, exitCode, fatal, storeError, nMeta, nFiles, dry_run, n, meta,
                   file, existing, skip_all_conflicts, pass, first>>

\* run_migration: decision = prompt_conflict(..) and the three branches on it
PromptConflict ==
    /\ UNCHANGED <<pathVars, storeVars, scanVars, joinVars>>
    /\ pc = "prompt"
    /\ \E decision \in {"overwrite", "skip", "skip_all"} :
          /\ h' = [h EXCEPT !.asks = @ + 1, !.decision = Some(decision),
                            !.outcome = IF decision = "overwrite" THEN @ ELSE "skipped"]
          /\ IF decision = "overwrite"
             THEN pc' = "write" /\ UNCHANGED <<stats, idx, skip_all_conflicts>>
             ELSE /\ stats' = Bump(stats, "skipped")
                  /\ idx' = idx + 1
                  /\ pc' = "loop"
                  /\ skip_all_conflicts' = (skip_all_conflicts \/ decision = "skip_all")
    /\ UNCHANGED <<phases, exitCode, fatal, storeError, nMeta, nFiles, dry_run, n, meta,
                   file, existing, needs, pass, first>>

\* run_migration: the write step, dry run or write_exif_data
WriteStep ==
    /\ UNCHANGED <<pathVars, storeVars, scanVars, joinVars>>
    /\ pc = "write"
    /\ LET action_rating == IF needs.rating THEN Some(FAVORITE_RATING) ELSE None
           action_description == IF needs.description THEN Some(meta.description) ELSE None
           cmd == build_write_cmd_args(action_rating, action_description)
       IN  IF InvokesWrite(dry_run, cmd)
           THEN \E ok \in BOOLEAN :
                  /\ file' = IF ok THEN ApplyWrite(file, Get(cmd)) ELSE file
                  /\ stats' = Bump(stats, IF ok THEN "processed" ELSE "errors")
                  /\ h' = [h EXCEPT !.writes = @ + 1, !.reachedWrite = TRUE, !.cmd = cmd,
                                    !.writeOk = Some(ok),
                                    !.outcome = IF ok THEN "processed" ELSE "errors"]
           ELSE /\ file' = file
                /\ stats' = Bump(stats, "processed")
                /\ h' = [h EXCEPT !.reachedWrite = TRUE, !.outcome = "processed"]
    /\ idx' = idx + 1
    /\ pc' = "loop"
    /\ UNCHANGED <<phases, exitCode, fatal, storeError, nMeta, nFiles, dry_run, n, meta,
                   existing, needs, skip_all_conflicts, pass, first>>

\* run_migration returns stats; main exits with the code the errors counter decides
ReturnStats ==
    /\ UNCHANGED <<pathVars, storeVars, scanVars, joinVars>>
    /\ pc = "loop"
    /\ Exhausted(idx, n)
    /\ Exit(FinalExitCode(stats), "none")
    /\ UNCHANGED <<phases, storeError, nMeta, nFiles, dry_run, n, idx, meta, file,
                   existing, needs, stats, skip_all_conflicts, pass, first, h>>

\* the program is run again on the same store and library after a run that merged
\* one pair: the same pair is matched, and its file holds what the first run left
Rerun ==
    /\ UNCHANGED <<pathVars, storeVars, scanVars>>
    /\ pc = "exit"
    /\ "migrate" \in phases
    /\ n = 1
    /\ pass < MaxPasses
    /\ pass' = pass + 1
    /\ first' = IF h.cls = "noop" THEN "noop"
                ELSE IF h.writes > 0 /\ h.outcome = "processed" THEN "written"
                ELSE "other"
    /\ pc' = "loop"
    /\ idx' = 1
    /\ exitCode' = None
    /\ stats' = ZeroStats
    /\ skip_all_conflicts' = FALSE
    /\ existing' = None
    /\ needs' = NoNeeds
    /\ h' = NewPair(FALSE, ZeroStats, file)
    /\ UNCHANGED joinVars
    /\ UNCHANGED <<phases, fatal, storeError, nMeta, nFiles, dry_run, n, meta, file>>

RunNext ==
    \/ CheckDependencies
    \/ ValidateDatabase
    \/ ReadDatabase
    \/ ScanPhotoFiles
    \/ MatchMetadata
    \/ LoopHead
    \/ ReadExif
    \/ Classify
    \/ PromptConflict
    \/ WriteStep
    \/ ReturnStats

----------------------------------------------------------------------------

vars == <<pathVars, storeVars, scanVars, runVars>>

Next == RunNext

Spec == Init /\ [][Next]_vars

NextTwice == RunNext \/ Rerun

\* the program is sequential and every call to the tool and to the oracle returns:
\* a step that can be taken is taken
Fairness == WF_vars(Next)

SpecLive == Init /\ [][Next]_vars /\ Fairness

SpecTwice == Init /\ [][NextTwice]_vars

InitPath == PathInit /\ StoreIdle /\ ScanIdle /\ RunIdle

SpecPath == InitPath /\ [][PathNext]_vars

InitSchema == SchemaInit /\ PathIdle /\ ScanIdle /\ RunIdle

SpecSchema == InitSchema /\ [][SchemaNext]_vars

InitStore == StoreInit /\ PathIdle /\ ScanIdle /\ RunIdle

SpecStore == InitStore /\ [][StoreNext]_vars

InitScan == ScanInit /\ PathIdle /\ StoreIdle /\ RunIdle

SpecScan == InitScan /\ [][ScanNext]_vars

\* the two map builders, one of them per behaviour
InitMaps == InitStore \/ InitScan

MapsNext ==
    \/ BuildQuery \/ ExecuteFails \/ ExecuteQuery \/ EmitRow \/ ReturnMetadata
    \/ StartScan \/ EnterDirectory \/ VisitFile \/ FinishScan

SpecMaps == InitMaps /\ [][MapsNext]_vars

----------------------------------------------------------------------------
(* Properties *)

\* the pair the loop visited last has been counted and the loop moved on
PairDone == pc \in {"loop", "exit"} /\ h.outcome # "none"

\* the segments of the store row's path as truncate_to_apple_path splits it
StoreParts ==
    SplitOn(ReplaceChar(build_relative_path(zdirectory, zfilename), "\\", "/"), "/")
MarkerPositions == {i \in 1..Len(StoreParts) : IsAppleDir(StoreParts[i])}

\* C1: for a store row whose path has a marker segment and the same photo found
\* by the scan, the key of the row equals the key of the file, whatever the case
\* and whatever precedes the marker segment on either side.
C1_SameJoinKey ==
    (ppc = {"db", "fs"} /\ MarkerPositions # {} /\ ~IsNone(fsKey)) => dbKey = fsKey

\* a conflict as the merger is specified to detect it, on the snapshot read
SnapshotConflict ==
    /\ ~IsNone(existing)
    /\ \/ /\ meta.description # <<>>
          /\ ~IsNone(Get(existing).description)
          /\ Get(Get(existing).description) # <<>>
          /\ Get(Get(existing).description) # meta.description
       \/ /\ meta.favorite
          /\ ~IsNone(Get(existing).rating)
          /\ Get(Get(existing).rating) < FAVORITE_RATING

\* C2: a write to a file whose pair is conflicting (description needed and the
\* embedded one non-empty and different, or rating needed and an embedded rating
\* present) is issued only after the oracle was asked for that pair and answered
\* overwrite.
C2_NoWriteOutsidePolicy ==
    ((h.writes > 0 \/ pc = "write") /\ SnapshotConflict)
        => (h.asks = 1 /\ h.decision = Some("overwrite"))

C2_ConflictOverwritten ==
    h.writes = 1 /\ SnapshotConflict /\ h.decision = Some("overwrite")

\* C3: once skip-all has been answered, every later conflicting pair is counted
\* as skipped, is not written and is not asked about, and the flag stays set
\* until the run ends.
C3_StickySkipAll ==
    /\ [](  (h.skipAtStart /\ SnapshotConflict /\ pc # "classify")
            => /\ h.asks = 0 /\ h.writes = 0
               /\ PairDone
               /\ h.outcome = "skipped"
               /\ stats = Bump(h.statsBefore, "skipped")
               /\ skip_all_conflicts )
    /\ [][skip_all_conflicts => skip_all_conflicts']_vars

C3_ConflictAfterSkipAll ==
    h.skipAtStart /\ SnapshotConflict /\ PairDone /\ h.outcome = "skipped"

\* C4: the oracle is asked at most once per pair, only for a conflicting pair and
\* only while the skip-all flag is not set; never for a no-op pair, a pair whose
\* change is not conflicting, or a pair whose read failed.
C4_OracleOncePerConflict ==
    /\ h.asks <= 1
    /\ (h.asks = 1 \/ pc = "prompt")
          => /\ SnapshotConflict
             /\ h.cls = "conflict"
             /\ ~h.skipAtStart
             /\ h.reads = 1
    /\ pc = "prompt" => ~skip_all_conflicts

C4_AskedOnce == h.asks = 1 /\ PairDone /\ SnapshotConflict

\* C5: in a dry run no write is ever invoked and no file changes, and every pair
\* that reaches the write step adds exactly one to processed.
C5_DryRunNeverWrites ==
    dry_run =>
        /\ h.writes = 0
        /\ file = h.fileBefore
        /\ h.reachedWrite =>
              /\ h.outcome = "processed"
              /\ stats = Bump(h.statsBefore, "processed")

C5_DryRunAfterOverwrite ==
    /\ dry_run /\ h.reachedWrite /\ h.reads = 1
    /\ h.asks = 1 /\ h.decision = Some("overwrite")
    /\ h.writes = 0 /\ stats.processed = 1

\* C6: after a pass that was a no-op or ended with a successful write, a second
\* pass over the same pair is a no-op: counted as skipped, no write, no oracle call.
C6_MergeIdempotent ==
    (pass >= 2 /\ first \in {"noop", "written"})
        => /\ h.asks = 0
           /\ h.writes = 0
           /\ pc \notin {"prompt", "write"}
           /\ (PairDone /\ ~IsNone(existing))
                 => (h.cls = "noop" /\ h.outcome = "skipped")

\* C7: every record the extractor emits is a favorite or has a non-empty
\* description, and no trashed row is visited.
C7_StrictInclusionFilter ==
    /\ \A e \in metadata : e.meta.favorite \/ e.meta.description # <<>>
    /\ ~IsNone(lastAsset) => Get(lastAsset).trashed = Some(0)

C9_StoreErrorIsFatal ==
    storeError =>
        /\ phases \cap {"scan", "match", "migrate"} = {}
        /\ pc = "exit" => exitCode # Some(EXIT_SUCCESS)

\* C10: for every combination of the optional tables and columns, every table the
\* description expression names is joined, every column a join condition names
\* exists, and the query executes.
C10_PlanResolves ==
    ~IsNone(plan) =>
        /\ \A k \in 1..Len(Get(plan).desc) :
              \E i \in 1..Len(Get(plan).joins) :
                  Get(plan).joins[i].table = Get(plan).desc[k][1]
        /\ \A i \in 1..Len(Get(plan).joins) :
              /\ Get(plan).joins[i].left[2] \in ColsOf(tables, Get(plan).joins[i].left[1])
              /\ Get(plan).joins[i].right[2] \in ColsOf(tables, Get(plan).joins[i].right[1])
        /\ spc # "store_error"

\* a description source the plan names
Detected(ref) == \E k \in 1..Len(Get(plan).desc) : Get(plan).desc[k] = ref

\* the source is in the plan and its value in the row is neither NULL nor ''
HasText(ref, v) == Detected(ref) /\ ~IsNone(v) /\ Get(v) # <<>>

\* C11: the DESCRIPTION column of every result row is the first non-empty value
\* among the detected sources in the order long description, title, caption, and
\* the empty string when no source is detected or all of them are empty or NULL.
C11_DescriptionPrecedence ==
    ~IsNone(lastAsset) =>
        LET a == Get(lastAsset)
        IN  a.description =
              IF HasText(Ref(T_DESC, "ZLONGDESCRIPTION"), a.long) THEN Get(a.long)
              ELSE IF HasText(Ref(T_AAA, "ZTITLE"), a.title) THEN Get(a.title)
              ELSE IF HasText(Ref(T_EXT, "ZCAPTION"), a.caption) THEN Get(a.caption)
              ELSE <<>>

C11_LongBeatsTitleAndCaption ==
    /\ ~IsNone(lastAsset)
    /\ HasText(Ref(T_DESC, "ZLONGDESCRIPTION"), Get(lastAsset).long)
    /\ HasText(Ref(T_AAA, "ZTITLE"), Get(lastAsset).title)
    /\ HasText(Ref(T_EXT, "ZCAPTION"), Get(lastAsset).caption)
    /\ Get(lastAsset).description = Get(Get(lastAsset).long)

\* the loop of run_migration has visited no pair
NoPairVisited ==
    /\ "migrate" \notin phases
    /\ stats = ZeroStats
    /\ h.reads = 0 /\ h.writes = 0 /\ h.asks = 0
    /\ h.cls = "none" /\ h.outcome = "none"

\* C12: when the database is missing, cannot be opened or has no ZASSET table,
\* when the scan root does not exist, or when the scan finds no eligible file,
\* the run has ended with a status other than success and no pair has been read,
\* written or asked about.
C12_FatalAbortsBeforePairs ==
    fatal \in {"db_missing", "open_error", "no_zasset", "root_missing", "no_files"}
        => /\ pc = "exit"
           /\ ~IsNone(exitCode) /\ Get(exitCode) # EXIT_SUCCESS
           /\ phases \cap {"match", "migrate"} = {}
           /\ NoPairVisited

C12_NoAssetTableExit ==
    fatal = "no_zasset" /\ pc = "exit" /\ exitCode = Some(EXIT_INVALID_DB)

\* the read or the write of the pair visited last failed
PairFailed == h.cls = "readfail" \/ h.writeOk = Some(FALSE)

\* the pairs counted so far
Counted == stats.processed + stats.skipped + stats.errors

\* C13: a pair whose read or write failed adds exactly one to errors and nothing
\* to the other counters, a pair whose read failed is not written, and the loop
\* goes on: it ends only when every pair of the matched list has been counted.
C13_PairFailuresIsolated ==
    /\ PairFailed =>
          /\ stats.errors = h.statsBefore.errors + 1
          /\ stats.processed = h.statsBefore.processed
          /\ stats.skipped = h.statsBefore.skipped
          /\ pc \in {"loop", "exit"}
    /\ h.cls = "readfail" => (h.writes = 0 /\ IsNone(h.cmd) /\ file = h.fileBefore)
    /\ (pc = "loop" /\ "migrate" \in phases) => Counted = idx - 1
    /\ (pc = "exit" /\ "migrate" \in phases) => (idx = n + 1 /\ Counted = n)

C13_PairAfterFailedRead ==
    /\ stats.errors = 1 /\ h.statsBefore.errors = 1
    /\ h.outcome = "processed" /\ h.writes = 1
    /\ pc = "exit"

\* C14: a run that reached the merge phase ends with success exactly when errors
\* is 0, whatever processed and skipped are; errors never decreases, so one failed
\* read or write makes the status non-success.
C14_SuccessIffNoErrors ==
    /\ []( (pc = "exit" /\ "migrate" \in phases)
              => /\ ~IsNone(exitCode)
                 /\ (Get(exitCode) = EXIT_SUCCESS) <=> (stats.errors = 0) )
    /\ [](PairFailed => stats.errors >= 1)
    /\ [][stats'.errors >= stats.errors]_vars

C14_ErrorAmongProcessed ==
    /\ pc = "exit" /\ "migrate" \in phases
    /\ stats.errors = 1 /\ stats.processed = 1
    /\ exitCode = Some(EXIT_GENERAL_ERROR)

\* the keys of the metadata records, and the records a pair was made of
MetadataKeySet == {md_keys[i] : i \in 1..Len(md_keys)}
PairedKeys == {matched[i].meta_key : i \in 1..Len(matched)}

\* C15: after the join every metadata record has exactly one pair, with the file
\* record of the same key, or is counted once as unmatched, so pairs + unmatched
\* is the number of records; no pair is made for a file without a record, only
\* files of pairs are read or written, and an unmatched record is not counted
\* in processed, skipped or errors.
C15_MatcherPartitions ==
    /\ "match" \notin phases => (matched = <<>> /\ missing_files = 0)
    /\ "match" \in phases =>
          /\ Len(matched) + missing_files = Len(md_keys)
          /\ \A i \in 1..Len(matched) :
                /\ matched[i].meta_key \in MetadataKeySet
                /\ matched[i].record \in photo_files
                /\ normalize_rel_path(matched[i].record.rel_path) = matched[i].meta_key
                /\ \A j \in 1..Len(matched) :
                      matched[j].meta_key = matched[i].meta_key => j = i
          /\ \A k \in MetadataKeySet :
                k \in PairedKeys <=> (\E r \in photo_files : r.key = k)
          /\ missing_files = Cardinality(MetadataKeySet \ PairedKeys)
    /\ (h.reads > 0 \/ h.writes > 0) =>
          /\ ~IsNone(h.path)
          /\ \E i \in 1..Len(matched) :
                /\ matched[i].record.rel_path = Get(h.path)
                /\ matched[i].meta_key \in MetadataKeySet
    /\ Counted <= Len(matched)
    /\ (pc = "exit" /\ "migrate" \in phases) => Counted = Len(md_keys) - missing_files

C15_UnmatchedRecordAndFile ==
    /\ pc = "exit" /\ "migrate" \in phases
    /\ Len(matched) = 1 /\ missing_files = 1
    /\ Cardinality(photo_files) = 2
    /\ Counted = 1 /\ h.reads = 1

\* no two entries of a dict share a key
UniqueKeys(dict) == \A e1 \in dict, e2 \in dict : e1.key = e2.key => e1 = e2

\* the step visits a store row / a scanned file
RowVisited == rowsLeft' = rowsLeft - 1
FileVisited == seen_files' # seen_files

\* C16: keys are unique in the metadata dict and in photo_files; an entry, once
\* in, is never replaced or removed; a row or a file whose key is already there
\* leaves the dict as it is and is counted (rows) or logged (files) as a duplicate;
\* and neither loop is ended by a duplicate.
C16_FirstWinsNeverFatal ==
    /\ [](UniqueKeys(metadata) /\ UniqueKeys(photo_files))
    /\ [][ /\ \A e \in metadata : e \in metadata'
           /\ \A r \in photo_files : r \in photo_files'
           /\ RowVisited =>
                 \E row \in {Get(lastAsset')} :
                     LET key == StoreKey(row.directory, row.filename)
                     IN  /\ key \in Keys(metadata')
                         /\ IF key \in Keys(metadata)
                            THEN metadata' = metadata /\ duplicates' = duplicates + 1
                            ELSE duplicates' = duplicates
                         /\ spc' = "rows"
           /\ FileVisited =>
                 \E f \in seen_files' \ seen_files :
                     /\ seen_files' = seen_files \cup {f}
                     /\ IF normalize_rel_path(f) \in Keys(photo_files)
                        THEN photo_files' = photo_files /\ dup_files' = dup_files + 1
                        ELSE /\ dup_files' = dup_files
                             /\ photo_files' \in
                                   { photo_files,
                                     photo_files \cup
                                       {[key |-> normalize_rel_path(f), rel_path |-> f]} }
                     /\ scpc' = "walk"
         ]_vars

C16_LaterFileDropped ==
    /\ scpc = "returned"
    /\ dup_files = 1
    /\ Cardinality(seen_files) = 2
    /\ Cardinality(photo_files) = 1

\* a segment of one or more digits followed by APPLE in any letter case
IsMarkerSegment(seg) ==
    /\ Len(seg) > 5
    /\ Upper(SubSeq(seg, Len(seg) - 4, Len(seg))) = <<"A","P","P","L","E">>
    /\ \A i \in 1..(Len(seg) - 5) : seg[i] \in Digits

\* the file at rel (relative to the scan root) lies under a marker folder
UnderMarkerFolder(rel) ==
    LET segs == SplitOn(rel, "/")
    IN  \E i \in 1..(Len(segs) - 1) : IsMarkerSegment(segs[i])

\* the file's extension, in lower case, is on the allow-list
HasPhotoExtension(rel) ==
    \E ext \in { <<".","j","p","g">>, <<".","j","p","e","g">>,
                  <<".","h","e","i","c">>, <<".","p","n","g">> } :
        /\ Len(rel) > Len(ext)
        /\ Lower(SubSeq(rel, Len(rel) - Len(ext) + 1, Len(rel))) = ext

\* C19: photo_files holds a record under a file's key exactly when the file has an
\* allowed extension (in any letter case) and lies under a marker folder below the
\* scan root; every record is of such a file; and a scan that met no marker folder
\* ends with a warning, not an error.
C19_ScannerEligibility ==
    /\ \A f \in seen_files :
          (normalize_rel_path(f) \in Keys(photo_files))
              <=> (HasPhotoExtension(f) /\ UnderMarkerFolder(f))
    /\ \A r \in photo_files :
          /\ r.rel_path \in seen_files
          /\ r.key = normalize_rel_path(r.rel_path)
          /\ HasPhotoExtension(r.rel_path) /\ UnderMarkerFolder(r.rel_path)
    /\ (scpc = "returned" /\ ~IsNone(walk_root)) =>
          /\ "error" \notin scan_log
          /\ ("warning" \in scan_log)
                <=> (\A d \in walked : \A i \in 1..Len(SplitOn(d, "/")) :
                        ~IsMarkerSegment(SplitOn(d, "/")[i]))

C19_MixedTreeScanned ==
    /\ scpc = "returned"
    /\ Cardinality(photo_files) = 1
    /\ Cardinality(seen_files) = 2
    /\ dup_files = 0
    /\ \E f \in seen_files : HasPhotoExtension(f) /\ ~UnderMarkerFolder(f)

\* what the read of the pair visited last returned
EmbeddedRating == Get(existing).rating
EmbeddedDescription ==
    IF IsNone(Get(existing).description) THEN <<>> ELSE Get(Get(existing).description)

\* the two needs as the merger is specified to compute them
NeedsRatingSpec ==
    meta.favorite /\ (IsNone(EmbeddedRating) \/ Get(EmbeddedRating) < 4)
NeedsDescriptionSpec ==
    meta.description # <<>> /\ meta.description # EmbeddedDescription

\* C17: outside a dry run, a pair that needs a change and has no conflict gets
\* exactly one write and no oracle call, and adds one to processed when the write
\* succeeds and one to errors when it fails; for a favorite whose file has no
\* rating, with nothing to describe, the write sets the rating to 4 and nothing else.
C17_SafeChangeApplied ==
    /\ ( /\ PairDone /\ ~IsNone(existing) /\ ~dry_run
         /\ NeedsRatingSpec \/ NeedsDescriptionSpec
         /\ ~SnapshotConflict )
       => /\ h.writes = 1 /\ h.asks = 0 /\ IsNone(h.decision)
          /\ ~IsNone(h.writeOk)
          /\ stats.skipped = h.statsBefore.skipped
          /\ IF Get(h.writeOk)
             THEN /\ stats.processed = h.statsBefore.processed + 1
                  /\ stats.errors = h.statsBefore.errors
             ELSE /\ stats.processed = h.statsBefore.processed
                  /\ stats.errors = h.statsBefore.errors + 1
          /\ (meta.favorite /\ IsNone(EmbeddedRating) /\ meta.description = <<>>)
                => h.cmd = Some([rating |-> Some(4), description |-> None])
    /\ ( /\ pc \in {"prompt", "write"} /\ ~IsNone(existing)
         /\ ~SnapshotConflict )
       => (pc = "write" /\ h.asks = 0)

C17_FavoriteRated ==
    /\ pc = "exit" /\ n = 1 /\ ~dry_run
    /\ meta.favorite /\ meta.description = <<>>
    /\ existing = Some([rating |-> None, description |-> None])
    /\ h.cmd = Some([rating |-> Some(4), description |-> None])
    /\ h.writes = 1 /\ h.asks = 0
    /\ stats = [processed |-> 1, skipped |-> 0, errors |-> 0]
    /\ file.rating = Some(4)

\* C18: a pair whose record is not a favorite or whose file is rated 4 or more,
\* and whose record has no description or the one the file holds, adds exactly one
\* to skipped and causes no write and no oracle call.
C18_NoChangeIsNoOp ==
    ( /\ PairDone
      /\ \/ ~meta.favorite /\ meta.description = <<>>
         \/ /\ ~IsNone(existing)
            /\ ~meta.favorite \/ (~IsNone(EmbeddedRating) /\ Get(EmbeddedRating) >= 4)
            /\ meta.description = <<>> \/ meta.description = EmbeddedDescription )
    => /\ h.outcome = "skipped"
       /\ stats.skipped = h.statsBefore.skipped + 1
       /\ stats.processed = h.statsBefore.processed
       /\ stats.errors = h.statsBefore.errors
       /\ h.writes = 0 /\ h.asks = 0
       /\ file = h.fileBefore

C18_SameDescriptionSkipped ==
    /\ pc = "exit" /\ n = 1
    /\ ~meta.favorite /\ meta.description = <<"a">>
    /\ ~IsNone(existing) /\ Get(existing).description = Some(<<"a">>)
    /\ stats = [processed |-> 0, skipped |-> 1, errors |-> 0]
    /\ h.writes = 0 /\ h.asks = 0

\* C20: every write carries a rating exactly when a rating is needed, and then 4,
\* and a description exactly when a description is needed, and then the record's;
\* the tags a write does not carry are the same in the file afterwards.
C20_WriteOnlyWhatIsNeeded ==
    (h.writes > 0 \/ pc = "write") =>
        /\ ~IsNone(existing)
        /\ needs.rating = NeedsRatingSpec
        /\ needs.description = NeedsDescriptionSpec
        /\ h.writes > 0 =>
              /\ ~IsNone(h.cmd)
              /\ Get(h.cmd).rating = IF NeedsRatingSpec THEN Some(4) ELSE None
              /\ Get(h.cmd).description =
                    IF NeedsDescriptionSpec THEN Some(meta.description) ELSE None
              /\ (~IsNone(EmbeddedRating) /\ Get(EmbeddedRating) >= 4)
                    => IsNone(Get(h.cmd).rating)
              /\ ~meta.favorite => IsNone(Get(h.cmd).rating)
              /\ meta.description = <<>> => IsNone(Get(h.cmd).description)
              /\ IsNone(Get(h.cmd).rating) => file.rating = h.fileBefore.rating
              /\ IsNone(Get(h.cmd).description) =>
                    /\ file.description = h.fileBefore.description
                    /\ file.imageDescription = h.fileBefore.imageDescription

C20_DescriptionOnlyWrite ==
    /\ h.writes = 1 /\ h.writeOk = Some(TRUE)
    /\ meta.favorite
    /\ EmbeddedRating = Some(5)
    /\ Get(h.cmd) = [rating |-> None, description |-> Some(meta.description)]
    /\ file.rating = Some(5)

\* run_migration is at or inside the pair at position idx
InLoop == pc \in {"loop", "read", "classify", "prompt", "write"}

\* exactly one of the three counters grows, and by one
OneCounterUp(before, after) ==
    \E c \in {"processed", "skipped", "errors"} :
        /\ after[c] = before[c] + 1
        /\ \A d \in {"processed", "skipped", "errors"} \ {c} : after[d] = before[d]

\* C21: throughout run_migration the three counters add up to the number of pairs
\* fully handled, finishing a pair adds one to exactly one counter, no counter
\* ever decreases, and when the run ends the sum is the length of the matched list.
C21_CounterAccounting ==
    /\ [](InLoop => stats.processed + stats.skipped + stats.errors = idx - 1)
    /\ []((pc = "exit" /\ "migrate" \in phases)
            => /\ stats.processed + stats.skipped + stats.errors = n
               /\ n = Len(matched))
    /\ [][InLoop => \/ stats' = stats /\ idx' = idx
                    \/ OneCounterUp(stats, stats') /\ idx' = idx + 1]_vars
    /\ [][ /\ stats'.processed >= stats.processed
           /\ stats'.skipped >= stats.skipped
           /\ stats'.errors >= stats.errors ]_vars

C21_TwoPairsCounted ==
    /\ pc = "exit" /\ n = 2
    /\ stats = [processed |-> 1, skipped |-> 0, errors |-> 1]

\* the pair read conflicts in exactly one field while the other field's change is
\* needed and safe: a favorite rated below 4 whose description is missing in the
\* file, or a different description in the file of an unrated favorite
RatingOnlyConflict ==
    /\ ~IsNone(existing)
    /\ meta.favorite /\ ~IsNone(EmbeddedRating) /\ Get(EmbeddedRating) < 4
    /\ meta.description # <<>> /\ EmbeddedDescription = <<>>
DescriptionOnlyConflict ==
    /\ ~IsNone(existing)
    /\ meta.favorite /\ IsNone(EmbeddedRating)
    /\ meta.description # <<>> /\ EmbeddedDescription # <<>>
    /\ EmbeddedDescription # meta.description
MixedConflict == RatingOnlyConflict \/ DescriptionOnlyConflict

\* C22: for a pair that conflicts in one field and needs a safe change in the
\* other, an answer of keep or skip-all, or a flag already set, leaves the file
\* as it was with no write at all, and an answer of overwrite issues one write
\* that carries both the rating 4 and the record's description.
C22_ConflictAllOrNothing ==
    (MixedConflict /\ pc # "classify") =>
        /\ pc = "write" => h.decision = Some("overwrite")
        /\ (h.skipAtStart \/ h.decision \in {Some("skip"), Some("skip_all")})
              => /\ PairDone /\ h.outcome = "skipped"
                 /\ h.writes = 0 /\ IsNone(h.cmd)
                 /\ file = h.fileBefore
        /\ (PairDone /\ h.decision = Some("overwrite") /\ ~dry_run)
              => /\ h.writes = 1
                 /\ h.cmd = Some([rating |-> Some(4),
                                  description |-> Some(meta.description)])
                 /\ h.writeOk = Some(TRUE)
                       => /\ file.rating = Some(4)
                          /\ file.description = Some(meta.description)
                 /\ h.writeOk = Some(FALSE) => file = h.fileBefore

C22_BothWrittenOnOverwrite ==
    /\ RatingOnlyConflict /\ PairDone /\ h.decision = Some("overwrite")
    /\ h.writes = 1 /\ h.writeOk = Some(TRUE)
    /\ h.fileBefore.rating = Some(3)
    /\ file.rating = Some(4) /\ file.description = Some(meta.description)

\* C23: with the skip-all flag set, a pair whose needed change does not conflict
\* still reaches the write step without an oracle call (one write, or counted
\* processed in a dry run), and a pair that needs nothing is still counted as
\* skipped; the pair on which skip-all was answered is counted as skipped and is
\* not written.
C23_SkipAllOnlyForConflicts ==
    /\ ( /\ h.skipAtStart /\ ~IsNone(existing) /\ pc # "classify"
         /\ NeedsRatingSpec \/ NeedsDescriptionSpec
         /\ ~SnapshotConflict )
       => /\ h.asks = 0
          /\ h.cls = "safe"
          /\ pc = "write" \/ PairDone
          /\ PairDone =>
                IF dry_run
                THEN /\ h.writes = 0 /\ h.outcome = "processed"
                     /\ stats.processed = h.statsBefore.processed + 1
                ELSE /\ h.writes = 1
                     /\ h.outcome = IF Get(h.writeOk) THEN "processed" ELSE "errors"
    /\ ( /\ h.skipAtStart /\ PairDone
         /\ \/ ~meta.favorite /\ meta.description = <<>>
            \/ ~IsNone(existing) /\ ~NeedsRatingSpec /\ ~NeedsDescriptionSpec )
       => /\ h.cls \in {"nometa", "noop"}
          /\ h.outcome = "skipped"
          /\ stats.skipped = h.statsBefore.skipped + 1
          /\ h.writes = 0 /\ h.asks = 0
    /\ h.decision = Some("skip_all")
       => /\ PairDone /\ h.outcome = "skipped"
          /\ stats.skipped = h.statsBefore.skipped + 1
          /\ stats.processed = h.statsBefore.processed
          /\ h.writes = 0 /\ file = h.fileBefore
          /\ skip_all_conflicts

C23_SafePairWrittenUnderFlag ==
    /\ h.skipAtStart /\ skip_all_conflicts /\ PairDone /\ ~dry_run
    /\ ~IsNone(existing) /\ NeedsRatingSpec /\ ~SnapshotConflict
    /\ h.writes = 1 /\ h.outcome = "processed" /\ h.asks = 0
    /\ stats.skipped >= 1

\* inside a pair: after the loop took it and before it is counted
InPair == pc \in {"read", "classify", "prompt", "write"}

\* C24: once run_migration starts it returns the counters after the last pair;
\* the pairs are taken one by one in list order, a pair is started only when the
\* one before it has been counted, and a pair gets at most one read and, only
\* after that read, at most one write.
C24_MergeLoopTerminates ==
    /\ (pc = "loop") ~> (pc = "exit" /\ idx = n + 1 /\ ~IsNone(exitCode))
    /\ [](InLoop => (1 <= idx /\ idx <= n + 1 /\ n = Len(matched)))
    /\ [](InPair => idx <= n)
    /\ [](h.reads <= 1 /\ h.writes <= 1 /\ (h.writes = 1 => h.reads = 1))
    /\ [][InLoop => \/ idx' = idx
                    \/ idx' = idx + 1 /\ pc' = "loop" /\ h'.outcome # "none"]_vars
    /\ [][(pc = "loop" /\ pc' # "exit")
            => /\ idx <= n
               /\ h'.reads = 0 /\ h'.writes = 0 /\ h'.asks = 0
               /\ h'.statsBefore = stats
               /\ pc' = "read" => h'.path = Some(matched[idx].record.rel_path)]_vars
    /\ [][InPair => /\ h'.statsBefore = h.statsBefore
                    /\ h'.path = h.path
                    /\ h'.fileBefore = h.fileBefore
                    /\ h'.reads >= h.reads /\ h'.writes >= h.writes
                    /\ h'.writes > h.writes => (h.reads = 1 /\ h'.reads = 1)
                    /\ h'.reads > h.reads => h.writes = 0]_vars

C24_TwoPairsReadAndWritten ==
    /\ pc = "exit" /\ n = 2 /\ idx = 3
    /\ h.reads = 1 /\ h.writes = 1
    /\ stats = [processed |-> 2, skipped |-> 0, errors |-> 0]
    /\ ~dry_run

====
